---- MODULE Spec2Model ----
(***************************************************************************)
(* Model of src/agent.py: run_agent_from_json builds a GenericAgent, runs  *)
(* it (connect the MCP servers, list their tools, drive the conversation   *)
(* with the completion API, dispatching tool calls) and cleans up.         *)
(*                                                                         *)
(* Every await / blocking call of the source is one step.  The MCP servers *)
(* and the completion API are the environment: each of their calls either  *)
(* raises or returns a value drawn from a small set.                       *)
(*                                                                         *)
(* Spec is that programme with a bound on its tool turns, PackagedSpec the *)
(* packaged agent of src/generic_agent/agent.py.                           *)
(***************************************************************************)
EXTENDS Integers, Sequences, FiniteSets, TLC

\* Bounds of the model.
MaxProviders == 2     \* at most this many entries in config.mcp_servers
MaxTurns == 2         \* the completion API asks for at most this many tool turns

VARIABLES
    payload,        \* AgentPayload: has_key, mcp_servers (their number), context
    pc,             \* position of run_agent_from_json / run
    idx,            \* index of the for loop the program is in
    mcp_sessions,   \* self.mcp_sessions: the registered servers, in order
    tools,          \* run's local `tools`
    messages,       \* run's local `messages`
    response,       \* run's local `response`
    pending,        \* what run() returned or raised, held while `finally` runs
    delivered,      \* what run_agent_from_json handed to its caller
    connectLog,     \* history: connection attempts, server and how it ended
    listLog,        \* history: list_tools calls, <<server, ok>>
    apiLog,         \* history: messages.create calls
    callLog,        \* history: call_tool calls
    dispatches,     \* history: number of call_mcp_tool invocations
    closeLog,       \* history: the servers close() was called on, in order
    closeErrors,    \* history: number of close() calls that raised
    generic_agent,  \* generic_agent.GenericAgent: config, workflow, mcp_servers,
                    \* output_schema
    run_at,         \* position of the caller of generic_agent.GenericAgent
    run_returned,   \* what the last run() of generic_agent.GenericAgent gave
    set_log         \* history: the names given to set_workflow, in order

\* The state of the packaged agent, src/generic_agent/agent.py, a programme
\* of its own: the steps of src/agent.py leave it alone.
packaged == <<generic_agent, run_at, run_returned, set_log>>

vars == <<payload, pc, idx, mcp_sessions, tools, messages, response, pending,
          delivered, connectLog, listLog, apiLog, callLog, dispatches, closeLog,
          closeErrors, packaged>>

-----------------------------------------------------------------------------
\* Python values.  A value carries its dynamic type in the field py.

None == [py |-> "None"]
PyStr(s) == [py |-> "str", v |-> s]
PyDict(k, val) == [py |-> "dict", key |-> k, val |-> val]
\* An instance of a class json does not know; v is the name of its class,
\* and its repr() is that name between angle brackets.
PyObject(s) == [py |-> "object", v |-> s]
\* A list that contains itself: a = []; a.append(a)
PyCycle == [py |-> "cycle"]
\* A list nested deeper than the interpreter's recursion limit.  site is
\* where json's Python encoder (the one json.dumps uses when indent is given)
\* is when the stack runs out, as the RecursionError names it; the state of
\* the interpreter decides it.
PyDeep(site) == [py |-> "deep", site |-> site]
\* An instance of a class json does not know and whose __repr__ raises
\* RuntimeError("no text"), hence its str() too; v is the name of its class.
PyUnprintable(s) == [py |-> "unprintable", v |-> s]

\* bool(x) for the values above: None and the empty string are falsy.
Truthy(x) == ~(x.py = "None" \/ (x.py = "str" /\ x.v = ""))

\* Texts are ASCII; the control characters they may hold are the ones
\* written \n, \t, \r and \f.
Contains(s, c) == \E i \in 1..Len(s) : SubSeq(s, i, i) = c

RECURSIVE Spaces(_)
Spaces(n) == IF n <= 0 THEN "" ELSE " " \o Spaces(n - 1)

\* json's escape of one character (json.encoder.ESCAPE_ASCII).
JsonEscapeChar(c) ==
    IF c = "\"" THEN "\\\""
    ELSE IF c = "\\" THEN "\\\\"
    ELSE IF c = "\n" THEN "\\n"
    ELSE IF c = "\t" THEN "\\t"
    ELSE IF c = "\r" THEN "\\r"
    ELSE IF c = "\f" THEN "\\f"
    ELSE c

\* json's encoding of a text: escaped, between double quotes.
RECURSIVE JsonEscape(_)
JsonEscape(s) ==
    IF s = "" THEN ""
    ELSE JsonEscapeChar(SubSeq(s, 1, 1)) \o JsonEscape(SubSeq(s, 2, Len(s)))

JsonString(s) == "\"" \o JsonEscape(s) \o "\""

\* The encoding of x at nesting depth level: with indent, every level of a
\* mapping is indented by two spaces more than the one that holds it.
RECURSIVE JsonEncode(_, _, _)
JsonEncode(x, indent, level) ==
    IF x.py = "None" THEN [ok |-> TRUE, text |-> "null"]
    ELSE IF x.py = "str" THEN [ok |-> TRUE, text |-> JsonString(x.v)]
    ELSE IF x.py = "dict" THEN
        LET inner == JsonEncode(x.val, indent, level + 1) IN
        IF ~inner.ok THEN inner
        ELSE [ok |-> TRUE,
              text |-> IF indent
                       THEN "{\n" \o Spaces(2 * (level + 1)) \o JsonString(x.key)
                            \o ": " \o inner.text \o "\n" \o Spaces(2 * level) \o "}"
                       ELSE "{" \o JsonString(x.key) \o ": " \o inner.text \o "}"]
    ELSE IF x.py = "cycle"
    THEN [ok |-> FALSE, error |-> "ValueError",
          msg |-> "Circular reference detected"]
    ELSE IF x.py = "deep"
    THEN [ok |-> FALSE, error |-> "RecursionError",
          msg |-> "maximum recursion depth exceeded"
                  \o (IF indent THEN x.site ELSE " while encoding a JSON object")]
    ELSE [ok |-> FALSE, error |-> "TypeError",
          msg |-> "Object of type " \o x.v \o " is not JSON serializable"]

\* json.dumps(x, indent): the text, or the error raised with its message:
\* TypeError for a value json cannot encode, ValueError for a circular
\* reference, RecursionError for a value nested too deep.
JsonDumps(x, indent) == JsonEncode(x, indent, 0)

\* repr()'s escape of one character of a text shown between quotes q.
ReprEscapeChar(c, q) ==
    IF c = "\\" THEN "\\\\"
    ELSE IF c = q THEN "\\" \o q
    ELSE IF c = "\n" THEN "\\n"
    ELSE IF c = "\t" THEN "\\t"
    ELSE IF c = "\r" THEN "\\r"
    ELSE IF c = "\f" THEN "\\x0c"
    ELSE c

RECURSIVE ReprEscape(_, _)
ReprEscape(s, q) ==
    IF s = "" THEN ""
    ELSE ReprEscapeChar(SubSeq(s, 1, 1), q) \o ReprEscape(SubSeq(s, 2, Len(s)), q)

\* repr() of a text: between apostrophes, or between double quotes when it
\* holds an apostrophe and no double quote.
ReprString(s) ==
    LET q == IF Contains(s, "'") /\ ~Contains(s, "\"") THEN "\"" ELSE "'"
    IN  q \o ReprEscape(s, q) \o q

\* repr(x): the text, or the error raised with its message.
RECURSIVE PyRepr(_)
PyRepr(x) ==
    IF x.py = "None" THEN [ok |-> TRUE, text |-> "None"]
    ELSE IF x.py = "str" THEN [ok |-> TRUE, text |-> ReprString(x.v)]
    ELSE IF x.py = "dict" THEN
        LET inner == PyRepr(x.val) IN
        IF ~inner.ok THEN inner
        ELSE [ok |-> TRUE,
              text |-> "{" \o ReprString(x.key) \o ": " \o inner.text \o "}"]
    ELSE IF x.py = "cycle" THEN [ok |-> TRUE, text |-> "[[...]]"]
    ELSE IF x.py = "deep"
    THEN [ok |-> FALSE, error |-> "RecursionError",
          msg |-> "maximum recursion depth exceeded while getting the repr of an object"]
    ELSE IF x.py = "unprintable"
    THEN [ok |-> FALSE, error |-> "RuntimeError", msg |-> "no text"]
    ELSE [ok |-> TRUE, text |-> "<" \o x.v \o ">"]

\* str(x): a text is itself; every other value above is shown by its repr,
\* a mapping showing its key and its value by theirs.
PyToStr(x) == IF x.py = "str" THEN [ok |-> TRUE, text |-> x.v] ELSE PyRepr(x)

-----------------------------------------------------------------------------
\* The payload.

Task == "What is 2+2?"

\* payload.context: absent, a mapping json can encode, one it cannot.
Contexts == {None, PyDict("k", PyStr("v")), PyDict("k", PyObject("Obj"))}

Payloads == [has_key : BOOLEAN, mcp_servers : 0..MaxProviders, context : Contexts]

\* config.mcp_servers: the servers are named by their position in the list.
Servers == 1..payload.mcp_servers

-----------------------------------------------------------------------------
\* The environment: MCP servers.

ServerTag(p) == <<"p1", "p2", "p3", "p4">>[p]

\* What list_tools of server p returns (response.tools).  Every server
\* advertises "X"; the first one also advertises "Y", without a description.
McpTool(n, d, s) == [name |-> n, description |-> d, inputSchema |-> s]
Advertised(p) ==
    IF p = 1
    THEN <<McpTool("X", PyStr(ServerTag(p)), "schema"), McpTool("Y", None, "schema")>>
    ELSE <<McpTool("X", PyStr(ServerTag(p)), "schema")>>

\* What call_tool may return when server p answers for the named tool: "Y"
\* gives a value json cannot encode, an object (printable or not) on the
\* first server, a list that contains itself or one nested too deep on the
\* others; "X" gives text on the first server and a mapping on the others.
ToolResult(p, tool_name) ==
    IF tool_name = "Y"
    THEN (IF p = 1 THEN {PyObject("CallToolResult"), PyUnprintable("Bad")}
          ELSE {PyCycle, PyDeep(" while calling a Python object")})
    ELSE IF p = 1 THEN {PyStr("y")}
    ELSE {PyDict("result", PyStr("y"))}

\* The environment: completion API.

TextBlock(t) == [type |-> "text", text |-> t]
ToolUseBlock(i, n, inp) == [type |-> "tool_use", id |-> i, name |-> n, input |-> inp]

U1 == ToolUseBlock("t1", "X", "q")
U2 == ToolUseBlock("t2", "Y", "r")

Contents ==
    { <<>>,
      <<TextBlock("a")>>,
      <<TextBlock("b"), TextBlock("a")>>,
      <<TextBlock("a"), U1>>,
      <<U2, TextBlock("b"), U1>> }

StopReasons == {"tool_use", "end_turn", "max_tokens"}

\* A response to a request of n messages.  The usage counters are the
\* service's; here the request size and the reply size, so that the calls of
\* one run report different counters.
Response(sr, c, n) ==
    [stop_reason |-> sr, content |-> c,
     usage |-> [input_tokens |-> n, output_tokens |-> Len(c)]]

\* No response: before the first call, and the reply of a call that raised.
NoResponse == [stop_reason |-> "none"]

-----------------------------------------------------------------------------
\* Outcomes of run().

NoOutcome == [kind |-> "none"]
Raised(t, m) == [kind |-> "error", type |-> t, msg |-> m]
Returned(r) == [kind |-> "result", value |-> r]

-----------------------------------------------------------------------------
Init ==
    /\ payload \in Payloads
    /\ pc = "construct"
    /\ idx = 0
    /\ mcp_sessions = <<>>
    /\ tools = <<>>
    /\ messages = <<>>
    /\ response = NoResponse
    /\ pending = NoOutcome
    /\ delivered = NoOutcome
    /\ connectLog = <<>>
    /\ listLog = <<>>
    /\ apiLog = <<>>
    /\ callLog = <<>>
    /\ dispatches = 0
    /\ closeLog = <<>>
    /\ closeErrors = 0
    /\ generic_agent = None
    /\ run_at = "none"
    /\ run_returned = NoOutcome
    /\ set_log = <<>>

\* A constructor that did not look at the key and left the failure to the
\* first use of the client.
ConstructWithoutKeyCheck ==
    /\ pc = "construct"
    /\ pc' = IF payload.mcp_servers > 0 THEN "connect" ELSE "build"
    /\ idx' = 1
    /\ UNCHANGED <<packaged, payload, mcp_sessions, tools, messages, response, pending,
                   delivered, connectLog, listLog, apiLog, callLog, dispatches,
                   closeLog, closeErrors>>

\* GenericAgent.__init__, called by run_agent_from_json before its try block.
Construct ==
    /\ pc = "construct"
    /\ IF ~payload.has_key
       THEN /\ delivered' = Raised("ValueError", "API key must be provided in config or ANTHROPIC_API_KEY environment variable")
            /\ pc' = "end"
            /\ idx' = idx
       ELSE /\ delivered' = delivered
            /\ pc' = IF payload.mcp_servers > 0 THEN "connect" ELSE "build"
            /\ idx' = 1
    /\ UNCHANGED <<packaged, payload, mcp_sessions, tools, messages, response, pending,
                   connectLog, listLog, apiLog, callLog, dispatches, closeLog,
                   closeErrors>>

-----------------------------------------------------------------------------
\* connect_mcp_servers: one iteration of its for loop is two steps, one per
\* await: the launch of the transport, then the handshake.

\* lines 74-77: a server whose transport started and whose initialize()
\* returned is appended to self.mcp_sessions.
RegisterSession(sessions, p) == Append(sessions, p)

\* A connect that registered the session before it knew the outcome.
ConnectFailedStillRegistered(sessions, p) == Append(sessions, p)

\* lines 80-81: the except branch prints and goes on to the next server.
ConnectFailed(sessions, p) == sessions

\* run, lines 137-141, once the for loop of connect_mcp_servers is over:
\* get_mcp_tools is awaited only when a session was registered.
AfterConnect(sessions) == IF sessions # <<>> THEN "list" ELSE "build"

\* A connect that registered the session as soon as its transport was up,
\* before the handshake.
connect_mcp_servers_registering_at_launch ==
    /\ pc = "connect"
    /\ idx \in Servers
    /\ \/ /\ connectLog' = Append(connectLog,
                                  [server |-> idx, outcome |-> "launch_failed"])
          /\ mcp_sessions' = ConnectFailed(mcp_sessions, idx)
          /\ IF idx < payload.mcp_servers
             THEN pc' = "connect" /\ idx' = idx + 1
             ELSE pc' = AfterConnect(mcp_sessions') /\ idx' = 1
       \/ /\ pc' = "initialize"
          /\ mcp_sessions' = Append(mcp_sessions, idx)
          /\ UNCHANGED <<idx, connectLog>>
    /\ UNCHANGED <<packaged, payload, tools, messages, response, pending, delivered,
                   listLog, apiLog, callLog, dispatches, closeLog,
                   closeErrors>>

\* lines 61-70, one iteration of the for loop up to the first await: the
\* transport of server idx is launched.  stdio_client raises, and the except
\* branch goes on to the next server, or it returns and the handshake is next.
connect_mcp_servers ==
    /\ pc = "connect"
    /\ idx \in Servers
    /\ \/ /\ connectLog' = Append(connectLog,
                                  [server |-> idx, outcome |-> "launch_failed"])
          /\ mcp_sessions' = ConnectFailed(mcp_sessions, idx)
          /\ IF idx < payload.mcp_servers
             THEN pc' = "connect" /\ idx' = idx + 1
             ELSE pc' = AfterConnect(mcp_sessions') /\ idx' = 1
       \/ /\ pc' = "initialize"
          /\ UNCHANGED <<idx, connectLog, mcp_sessions>>
    /\ UNCHANGED <<packaged, payload, tools, messages, response, pending, delivered,
                   listLog, apiLog, callLog, dispatches, closeLog,
                   closeErrors>>

\* lines 71-81, the rest of the iteration: session.initialize() is awaited.
\* It raises, and the except branch goes on to the next server, or it returns
\* and the session is registered.
session_initialize ==
    /\ pc = "initialize"
    /\ idx \in Servers
    /\ \/ /\ connectLog' = Append(connectLog,
                                  [server |-> idx, outcome |-> "handshake_failed"])
          /\ mcp_sessions' = ConnectFailed(mcp_sessions, idx)
       \/ /\ connectLog' = Append(connectLog,
                                  [server |-> idx, outcome |-> "connected"])
          /\ mcp_sessions' = RegisterSession(mcp_sessions, idx)
    /\ IF idx < payload.mcp_servers
       THEN pc' = "connect" /\ idx' = idx + 1
       ELSE pc' = AfterConnect(mcp_sessions') /\ idx' = 1
    /\ UNCHANGED <<packaged, payload, tools, messages, response, pending, delivered,
                   listLog, apiLog, callLog, dispatches, closeLog,
                   closeErrors>>

-----------------------------------------------------------------------------
\* get_mcp_tools: one iteration of its for loop per step.

\* lines 98-102: an MCP tool in the completion API's format.
AnthropicTool(tool) ==
    [name |-> tool.name,
     description |-> IF Truthy(tool.description) THEN tool.description.v ELSE "",
     input_schema |-> tool.inputSchema]

\* A listing that skipped a tool whose name the catalog already holds.
RECURSIVE ExtendToolsDeduplicating(_, _)
ExtendToolsDeduplicating(ts, listed) ==
    IF listed = <<>> THEN ts
    ELSE IF \E k \in 1..Len(ts) : ts[k].name = Head(listed).name
         THEN ExtendToolsDeduplicating(ts, Tail(listed))
         ELSE ExtendToolsDeduplicating(
                  Append(ts, [name |-> Head(listed).name,
                              description |-> IF Head(listed).description = None
                                              THEN ""
                                              ELSE Head(listed).description.v,
                              input_schema |-> Head(listed).inputSchema]),
                  Tail(listed))

\* lines 97-102: the tools of one listing, appended in the order listed.
RECURSIVE ExtendTools(_, _)
ExtendTools(ts, listed) ==
    IF listed = <<>> THEN ts
    ELSE ExtendTools(Append(ts, AnthropicTool(Head(listed))), Tail(listed))

\* A listing whose failure emptied the catalog gathered so far.
ListingFailedDropsCatalog(ts) == <<>>

\* lines 103-104: a failed listing prints and leaves `tools` as it was.
ListingFailed(ts) == ts

get_mcp_tools ==
    /\ pc = "list"
    /\ idx \in 1..Len(mcp_sessions)
    /\ \E ok \in BOOLEAN :
        /\ listLog' = Append(listLog, [server |-> mcp_sessions[idx], ok |-> ok])
        /\ tools' = IF ok THEN ExtendTools(tools, Advertised(mcp_sessions[idx]))
                    ELSE ListingFailed(tools)
    /\ IF idx < Len(mcp_sessions)
       THEN pc' = "list" /\ idx' = idx + 1
       ELSE pc' = "build" /\ idx' = 1
    /\ UNCHANGED <<packaged, payload, mcp_sessions, messages, response, pending, delivered,
                   connectLog, apiLog, callLog, dispatches, closeLog,
                   closeErrors>>

-----------------------------------------------------------------------------
\* run, lines 143-154: the initial conversation.

UserText(s) == [role |-> "user", content |-> PyStr(s)]

\* lines 152-154: the context, when truthy, is appended as text.  json.dumps
\* is not guarded here: its TypeError leaves run().
BuildMessages(task, context) ==
    IF ~Truthy(context) THEN [ok |-> TRUE, messages |-> <<UserText(task)>>]
    ELSE LET d == JsonDumps(context, TRUE) IN
         IF d.ok
         THEN [ok |-> TRUE,
               messages |-> <<UserText(task \o "\n\nAdditional context:\n" \o d.text)>>]
         ELSE [ok |-> FALSE, messages |-> <<UserText(task)>>,
               error |-> d.error, msg |-> d.msg]

build_messages ==
    /\ pc = "build"
    /\ LET b == BuildMessages(Task, payload.context) IN
        /\ messages' = b.messages
        /\ IF b.ok
           THEN pc' = "create" /\ pending' = pending
           ELSE /\ pc' = "cleanup"
                /\ pending' = Raised(b.error, b.msg)
    /\ idx' = 1
    /\ UNCHANGED <<packaged, payload, mcp_sessions, tools, response, delivered,
                   connectLog, listLog, apiLog, callLog, dispatches, closeLog,
                   closeErrors>>

-----------------------------------------------------------------------------
\* run, lines 156-226: the calls of the completion API and the tool loop.

PyList(items) == [py |-> "list", items |-> items]

NoBlock == [type |-> "None"]

\* An extraction that took the last tool_use block of the content.
RECURSIVE LastToolUse(_)
LastToolUse(content) ==
    IF content = <<>> THEN NoBlock
    ELSE IF content[Len(content)].type = "tool_use" THEN content[Len(content)]
    ELSE LastToolUse(SubSeq(content, 1, Len(content) - 1))

\* lines 170-173: next(block for block in content if block.type == "tool_use",
\* None)
RECURSIVE FirstToolUse(_)
FirstToolUse(content) ==
    IF content = <<>> THEN NoBlock
    ELSE IF Head(content).type = "tool_use" THEN Head(content)
    ELSE FirstToolUse(Tail(content))

\* A loop that asked the API again when a tool-use reply held no tool_use
\* block.
LoopTestAsksAgain(resp) ==
    IF resp.stop_reason = "tool_use"
    THEN IF FirstToolUse(resp.content) # NoBlock THEN "call_tool" ELSE "continue"
    ELSE "finish"

\* lines 168 and 175: the while test, then the test of the block found.
LoopTest(resp) ==
    IF resp.stop_reason = "tool_use"
    THEN IF FirstToolUse(resp.content) # NoBlock THEN "call_tool" ELSE "finish"
    ELSE "finish"

\* A test of the registered sessions instead of the catalog.
UseToolsWhenSessions(ts) == mcp_sessions # <<>>

\* line 157: `if tools:`
UseTools(ts) == ts # <<>>

\* A call that always passed its catalog, empty or not.
ToolsArgumentAlways(withTools, ts) == [given |-> TRUE, value |-> ts]

\* The tools argument of a messages.create call: lines 159-165 and 210-216
\* pass tools=tools, lines 221-226 pass no tools argument.
ToolsArgument(withTools, ts) ==
    IF withTools THEN [given |-> TRUE, value |-> ts] ELSE [given |-> FALSE]

\* One call of self.client.messages.create.  The service raises, or answers;
\* it asks for a further tool turn at most MaxTurns times.
MessagesCreate(withTools) ==
    /\ \/ /\ pending' = Raised("APIError", "completion API call failed")
          /\ apiLog' = Append(apiLog, [tools |-> ToolsArgument(withTools, tools),
                                       messages |-> Len(messages),
                                       reply |-> NoResponse])
          /\ pc' = "cleanup"
          /\ idx' = 1
          /\ UNCHANGED <<response, dispatches>>
       \/ \E sr \in StopReasons, c \in Contents :
            LET resp == Response(sr, c, Len(messages))
                next == IF withTools THEN LoopTest(resp) ELSE "finish"
            IN  /\ next = "call_tool" => dispatches < MaxTurns
                /\ apiLog' = Append(apiLog, [tools |-> ToolsArgument(withTools, tools),
                                             messages |-> Len(messages),
                                             reply |-> resp])
                /\ response' = resp
                /\ pc' = next
                /\ idx' = 1
                /\ dispatches' = IF next = "call_tool" THEN dispatches + 1
                                 ELSE dispatches
                /\ pending' = pending
    /\ UNCHANGED <<packaged, payload, mcp_sessions, tools, messages, delivered,
                   connectLog, listLog, callLog, closeLog,
                   closeErrors>>

\* lines 159-165
create_with_tools ==
    /\ pc = "create"
    /\ UseTools(tools)
    /\ MessagesCreate(TRUE)

\* lines 221-226
create_without_tools ==
    /\ pc = "create"
    /\ ~UseTools(tools)
    /\ MessagesCreate(FALSE)

\* lines 210-216
create_continue ==
    /\ pc = "continue"
    /\ MessagesCreate(TRUE)

\* A dispatch that tried the most recently registered session first.
ProbeReversed(sessions) ==
    [i \in 1..Len(sessions) |-> sessions[Len(sessions) + 1 - i]]

\* call_mcp_tool, line 118: the sessions in the order the for loop visits them.
ProbeOrder(sessions) == sessions

\* lines 189-196: the text put in the tool_result block, or the error that
\* leaves run(): one json.dumps raised that is neither TypeError nor
\* ValueError, or one str() raised.
SerializeResult(tool_result) ==
    IF tool_result.py = "str" THEN [ok |-> TRUE, text |-> tool_result.v]
    ELSE LET d == JsonDumps(tool_result, FALSE) IN
         IF d.ok THEN d
         ELSE IF d.error \in {"TypeError", "ValueError"} THEN PyToStr(tool_result)
         ELSE d

AssistantMessage(content) == [role |-> "assistant", content |-> PyList(content)]

ToolResultMessage(block, text) ==
    [role |-> "user",
     content |-> PyList(<< [type |-> "tool_result",
                            tool_use_id |-> block.id,
                            content |-> text] >>)]

\* A loop that appended the tool result only.
AppendTurnResultOnly(msgs, content, block, tool_result) ==
    LET s == SerializeResult(tool_result) IN
    IF s.ok THEN Append(msgs, ToolResultMessage(block, s.text)) ELSE msgs

\* A loop that appended the tool result before the assistant's turn.
AppendTurnResultFirst(msgs, content, block, tool_result) ==
    LET s == SerializeResult(tool_result) IN
    IF s.ok
    THEN msgs \o << ToolResultMessage(block, s.text), AssistantMessage(content) >>
    ELSE msgs

\* lines 183-207: the messages appended after a successful dispatch.  The
\* assistant's turn is appended first (lines 183-186); the tool result
\* follows (lines 198-207) when its serialization did not raise.
AppendTurn(msgs, content, block, tool_result) ==
    LET s == SerializeResult(tool_result) IN
    IF s.ok
    THEN msgs \o << AssistantMessage(content), ToolResultMessage(block, s.text) >>
    ELSE Append(msgs, AssistantMessage(content))

\* call_mcp_tool, lines 118-126: one call_tool per step.  A call that raises
\* moves on to the next session; one that returns ends the dispatch, and run
\* (lines 182-207) appends the turn before it calls the API again, or is left
\* by the error of the serialization.
call_mcp_tool ==
    /\ pc = "call_tool"
    /\ idx \in 1..Len(ProbeOrder(mcp_sessions))
    /\ LET block == FirstToolUse(response.content)
           server == ProbeOrder(mcp_sessions)[idx]
       IN \/ /\ callLog' = Append(callLog, [server |-> server, name |-> block.name,
                                            input |-> block.input, ok |-> FALSE,
                                            result |-> None,
                                            dispatch |-> dispatches])
             /\ idx' = idx + 1
             /\ UNCHANGED <<pc, messages, pending>>
          \/ \E result \in ToolResult(server, block.name) :
             LET s == SerializeResult(result) IN
             /\ callLog' = Append(callLog, [server |-> server, name |-> block.name,
                                            input |-> block.input, ok |-> TRUE,
                                            result |-> result,
                                            dispatch |-> dispatches])
             /\ messages' = AppendTurn(messages, response.content, block, result)
             /\ IF s.ok
                THEN pc' = "continue" /\ pending' = pending
                ELSE pc' = "cleanup" /\ pending' = Raised(s.error, s.msg)
             /\ idx' = 1
    /\ UNCHANGED <<packaged, payload, mcp_sessions, tools, response, delivered,
                   connectLog, listLog, apiLog, dispatches, closeLog,
                   closeErrors>>

\* line 128: the error raised once every session has been tried.
NotFound(tool_name) ==
    Raised("ValueError", "Tool '" \o tool_name \o "' not found on any connected MCP server")

\* A loop that answered a failed dispatch with a tool_result carrying the
\* error text and went on.
call_mcp_tool_error_injected ==
    /\ pc = "call_tool"
    /\ idx > Len(ProbeOrder(mcp_sessions))
    /\ messages' = AppendTurn(messages, response.content,
                              FirstToolUse(response.content),
                              PyStr(NotFound(FirstToolUse(response.content).name).msg))
    /\ pc' = "continue"
    /\ idx' = 1
    /\ UNCHANGED <<packaged, payload, mcp_sessions, tools, response, pending, delivered,
                   connectLog, listLog, apiLog, callLog, dispatches, closeLog,
                   closeErrors>>

call_mcp_tool_not_found ==
    /\ pc = "call_tool"
    /\ idx > Len(ProbeOrder(mcp_sessions))
    /\ pending' = NotFound(FirstToolUse(response.content).name)
    /\ pc' = "cleanup"
    /\ idx' = 1
    /\ UNCHANGED <<packaged, payload, mcp_sessions, tools, messages, response, delivered,
                   connectLog, listLog, apiLog, callLog, dispatches, closeLog,
                   closeErrors>>

-----------------------------------------------------------------------------
\* run, lines 228-242: the result.

Model == "claude-3-5-sonnet-20241022"

\* An extraction that put each text in front of the text gathered so far.
RECURSIVE ExtractTextPrepending(_)
ExtractTextPrepending(content) ==
    IF content = <<>> THEN ""
    ELSE ExtractTextPrepending(Tail(content))
         \o (IF "text" \in DOMAIN Head(content) THEN Head(content).text ELSE "")

\* lines 229-232: the text of every block that has a text attribute.
RECURSIVE ExtractText(_)
ExtractText(content) ==
    IF content = <<>> THEN ""
    ELSE (IF "text" \in DOMAIN Head(content) THEN Head(content).text ELSE "")
         \o ExtractText(Tail(content))

\* The counters of the replies logged so far, added up.
RECURSIVE TotalUsage(_)
TotalUsage(log) ==
    IF log = <<>> THEN [input_tokens |-> 0, output_tokens |-> 0]
    ELSE LET rest == TotalUsage(Tail(log))
             r == Head(log).reply
         IN IF r = NoResponse THEN rest
            ELSE [input_tokens |-> r.usage.input_tokens + rest.input_tokens,
                  output_tokens |-> r.usage.output_tokens + rest.output_tokens]

\* A result that reported the usage of the whole run.
RunResultTotalUsage(resp) ==
    [response |-> ExtractText(resp.content),
     model |-> Model,
     stop_reason |-> resp.stop_reason,
     usage |-> TotalUsage(apiLog)]

\* lines 234-242
RunResult(resp) ==
    [response |-> ExtractText(resp.content),
     model |-> Model,
     stop_reason |-> resp.stop_reason,
     usage |-> [input_tokens |-> resp.usage.input_tokens,
                output_tokens |-> resp.usage.output_tokens]]

\* A run that asked the API once more when the last reply was cut short.
finish_continuing_when_cut ==
    /\ pc = "finish"
    /\ IF response.stop_reason = "max_tokens" /\ Len(apiLog) < 2
       THEN pc' = "continue" /\ pending' = pending
       ELSE pc' = "cleanup" /\ pending' = Returned(RunResult(response))
    /\ idx' = 1
    /\ UNCHANGED <<packaged, payload, mcp_sessions, tools, messages, response, delivered,
                   connectLog, listLog, apiLog, callLog, dispatches, closeLog,
                   closeErrors>>

finish ==
    /\ pc = "finish"
    /\ pending' = Returned(RunResult(response))
    /\ pc' = "cleanup"
    /\ idx' = 1
    /\ UNCHANGED <<packaged, payload, mcp_sessions, tools, messages, response, delivered,
                   connectLog, listLog, apiLog, callLog, dispatches, closeLog,
                   closeErrors>>

-----------------------------------------------------------------------------
\* run_agent_from_json, lines 268-272: cleanup in the finally block, then the
\* result or the exception of run() reaches the caller.

\* A cleanup that closed the most recent session only.
CleanupLastOnly(sessions) ==
    IF sessions = <<>> THEN <<>> ELSE <<sessions[Len(sessions)]>>

\* cleanup, line 246: the sessions in the order the for loop visits them.
CleanupOrder(sessions) == sessions

\* A cleanup without the try: a close that raises ends the loop and its
\* error takes the place of the outcome of run().
cleanup_close_error_propagates ==
    /\ pc = "cleanup"
    /\ idx \in 1..Len(CleanupOrder(mcp_sessions))
    /\ closeLog' = Append(closeLog, CleanupOrder(mcp_sessions)[idx])
    /\ \/ /\ idx' = idx + 1
          /\ UNCHANGED <<closeErrors, pending>>
       \/ /\ closeErrors' = closeErrors + 1
          /\ pending' = Raised("Exception", "close failed")
          /\ idx' = Len(CleanupOrder(mcp_sessions)) + 1
    /\ UNCHANGED <<packaged, payload, pc, mcp_sessions, tools, messages, response,
                   delivered, connectLog, listLog, apiLog, callLog, dispatches>>

\* lines 247-250: one close per step; a close that raises is printed.
cleanup ==
    /\ pc = "cleanup"
    /\ idx \in 1..Len(CleanupOrder(mcp_sessions))
    /\ closeLog' = Append(closeLog, CleanupOrder(mcp_sessions)[idx])
    /\ \E ok \in BOOLEAN : closeErrors' = IF ok THEN closeErrors ELSE closeErrors + 1
    /\ idx' = idx + 1
    /\ UNCHANGED <<packaged, payload, pc, mcp_sessions, tools, messages, response, pending,
                   delivered, connectLog, listLog, apiLog, callLog, dispatches>>

\* lines 270 and 272: after the finally block, `return result` or the
\* exception in flight.
AfterCleanup(outcome) == outcome

deliver ==
    /\ pc = "cleanup"
    /\ idx > Len(CleanupOrder(mcp_sessions))
    /\ delivered' = AfterCleanup(pending)
    /\ pc' = "end"
    /\ UNCHANGED <<packaged, payload, idx, mcp_sessions, tools, messages, response, pending,
                   connectLog, listLog, apiLog, callLog, dispatches, closeLog,
                   closeErrors>>

-----------------------------------------------------------------------------
Next ==
    \/ Construct
    \/ connect_mcp_servers
    \/ session_initialize
    \/ get_mcp_tools
    \/ build_messages
    \/ create_with_tools
    \/ create_without_tools
    \/ create_continue
    \/ call_mcp_tool
    \/ call_mcp_tool_not_found
    \/ finish
    \/ cleanup
    \/ deliver

Spec == Init /\ [][Next]_vars

-----------------------------------------------------------------------------
\* The packaged agent, src/generic_agent/agent.py: a caller constructs a
\* GenericAgent from a configuration, calls set_workflow any number of times
\* (at most MaxSets here) and awaits run(), possibly again.  run() never
\* suspends (the coroutines it awaits do not), so no call interleaves with it.

MaxSets == 2          \* at most this many set_workflow calls

\* A key the configuration dictionary does not hold.
Absent == [py |-> "absent"]

\* dict.get(key, default), v being the value under the key or Absent.
DictGet(v, default) == IF v = Absent THEN default ELSE v

\* config values: the keys __init__ reads.  servers is the value of
\* config['mcp_config']['servers']: a list of server entries, the last of
\* which may be a string instead of a mapping.
ConfigDict(w, srv, schema) ==
    [py |-> "dict", workflow |-> w, servers |-> srv, output_schema |-> schema]

EmptyConfig == ConfigDict(Absent, Absent, Absent)

EmptySchema == [py |-> "dict", empty |-> TRUE]

Configs ==
    {None} \cup
    { ConfigDict(w, srv, schema) :
        w \in {Absent, None, PyStr("research")},
        srv \in {Absent, PyList(<<>>), PyList(<<PyDict("id", PyStr("s1"))>>),
                 PyList(<<PyDict("id", PyStr("s1")), PyStr("bad")>>)},
        schema \in {Absent, EmptySchema, PyDict("type", PyStr("object"))} }

WorkflowNames == {"w1", "w2"}

\* Nothing of src/agent.py runs; the packaged agent is not constructed yet.
PackagedInit ==
    /\ payload = [has_key |-> FALSE, mcp_servers |-> 0, context |-> None]
    /\ pc = "not_started"
    /\ idx = 0
    /\ mcp_sessions = <<>>
    /\ tools = <<>>
    /\ messages = <<>>
    /\ response = NoResponse
    /\ pending = NoOutcome
    /\ delivered = NoOutcome
    /\ connectLog = <<>>
    /\ listLog = <<>>
    /\ apiLog = <<>>
    /\ callLog = <<>>
    /\ dispatches = 0
    /\ closeLog = <<>>
    /\ closeErrors = 0
    /\ generic_agent = None
    /\ run_at = "new"
    /\ run_returned = NoOutcome
    /\ set_log = <<>>

agentVars == <<payload, pc, idx, mcp_sessions, tools, messages, response,
               pending, delivered, connectLog, listLog, apiLog, callLog,
               dispatches, closeLog, closeErrors>>

\* lines 27-32: the fields __init__ sets.
NewAgent(config) ==
    LET c == IF config = None THEN EmptyConfig ELSE config IN
    [config |-> c,
     workflow |-> DictGet(c.workflow, PyStr("default")),
     mcp_servers |-> DictGet(c.servers, PyList(<<>>)),
     llm_config |-> EmptySchema,
     execution_policy |-> EmptySchema,
     output_schema |-> DictGet(c.output_schema, EmptySchema)]

\* create_agent / GenericAgent.__init__
create_agent ==
    /\ run_at = "new"
    /\ \E config \in Configs : generic_agent' = NewAgent(config)
    /\ run_at' = "idle"
    /\ UNCHANGED <<agentVars, run_returned, set_log>>

\* lines 117-125
set_workflow ==
    /\ run_at \in {"idle", "returned"}
    /\ Len(set_log) < MaxSets
    /\ \E workflow_name \in WorkflowNames :
        /\ generic_agent' = [generic_agent EXCEPT !.workflow = PyStr(workflow_name)]
        /\ set_log' = Append(set_log, workflow_name)
    /\ run_at' = "idle"
    /\ UNCHANGED <<agentVars, run_returned>>

\* lines 78-79: server.get('id', 'unknown') for each entry, in order; an
\* entry that is not a mapping has no get.
RECURSIVE InitializeMcpConnections(_)
InitializeMcpConnections(servers) ==
    IF servers = <<>> THEN [ok |-> TRUE]
    ELSE IF Head(servers).py = "dict" THEN InitializeMcpConnections(Tail(servers))
    ELSE [ok |-> FALSE,
          error |-> "'" \o Head(servers).py \o "' object has no attribute 'get'"]

\* lines 97-101
ExecuteWorkflow(agent) ==
    [message |-> "Agent executed successfully",
     workflow |-> agent.workflow,
     context |-> "This is a simulation of the MCP-based agent execution"]

\* line 54: `if self.output_schema:`
SchemaGiven(schema) == schema # EmptySchema

\* line 115
ValidateOutput(result) == result

\* lines 57-61
SuccessResult(agent, data) ==
    [status |-> "success", data |-> data, workflow |-> agent.workflow]

\* A failure report that named the workflow of the configuration.
FailedResultConfiguredWorkflow(agent, error) ==
    [status |-> "failed", error |-> error,
     workflow |-> DictGet(agent.config.workflow, PyStr("default"))]

\* lines 65-69
FailedResult(agent, error) ==
    [status |-> "failed", error |-> error, workflow |-> agent.workflow]

\* run, lines 44-48 and 63-69: the connections; what they raise is caught.
run_initialize ==
    /\ run_at \in {"idle", "returned"}
    /\ LET r == InitializeMcpConnections(generic_agent.mcp_servers.items) IN
        IF r.ok
        THEN /\ run_at' = "execute"
             /\ run_returned' = NoOutcome
        ELSE /\ run_at' = "returned"
             /\ run_returned' = Returned(FailedResult(generic_agent, r.error))
    /\ UNCHANGED <<agentVars, generic_agent, set_log>>

\* run, lines 50-61: the workflow, the validation and the result.
run_execute ==
    /\ run_at = "execute"
    /\ LET result == ExecuteWorkflow(generic_agent)
           validated == IF SchemaGiven(generic_agent.output_schema)
                        THEN ValidateOutput(result) ELSE result
       IN run_returned' = Returned(SuccessResult(generic_agent, validated))
    /\ run_at' = "returned"
    /\ UNCHANGED <<agentVars, generic_agent, set_log>>

PackagedNext ==
    \/ create_agent
    \/ set_workflow
    \/ run_initialize
    \/ run_execute

PackagedSpec == PackagedInit /\ [][PackagedNext]_vars

-----------------------------------------------------------------------------
\* Properties.  The definitions below read the state; none is used by Next.

\* Replies of the completion API that carried the stop reason sr.
RepliesWith(sr) == {i \in 1..Len(apiLog) : apiLog[i].reply.stop_reason = sr}

\* call_tool calls that returned.
OkCalls == {i \in 1..Len(callLog) : callLog[i].ok}

IsToolResultMessage(m) ==
    /\ m.role = "user"
    /\ m.content.py = "list"
    /\ Len(m.content.items) = 1
    /\ m.content.items[1].type = "tool_result"

\* C1: in a run with a non-empty tool catalog that returned after N tool-use
\* replies, each dispatched with success, and one reply that is not tool-use,
\* there were exactly N dispatches and N+1 calls of the completion API, and
\* the conversation holds 1 + 2N messages: the task, then for each tool turn
\* an assistant message followed by a user message carrying a tool_result.
C1_TurnCounts ==
    (pending.kind = "result" /\ UseTools(tools) /\ response.stop_reason # "tool_use")
    => LET N == Cardinality(RepliesWith("tool_use")) IN
        /\ dispatches = N
        /\ Cardinality(OkCalls) = N
        /\ Len(apiLog) = N + 1
        /\ Len(messages) = 1 + 2 * N
        /\ \A k \in 1..N :
            /\ messages[2 * k].role = "assistant"
            /\ IsToolResultMessage(messages[2 * k + 1])
            /\ apiLog[k + 1].messages = 1 + 2 * k

C1_Witness ==
    /\ pending.kind = "result"
    /\ UseTools(tools)
    /\ response.stop_reason = "end_turn"
    /\ Cardinality(RepliesWith("tool_use")) = 2
    /\ Len(messages) = 5

\* C2: the conversation starts with a user message and alternates user and
\* assistant; every completion-API call is made on a conversation that ends
\* with a user message; a user message carrying a tool_result comes right
\* after the assistant message holding the tool_use block that was
\* dispatched, and its tool_use_id is that block's id.
C2_Alternation ==
    /\ \A i \in 1..Len(messages) :
        messages[i].role = IF i % 2 = 1 THEN "user" ELSE "assistant"
    /\ \A i \in 1..Len(apiLog) : apiLog[i].messages % 2 = 1
    /\ \A i \in 1..Len(messages) :
        IsToolResultMessage(messages[i]) =>
            /\ i > 1
            /\ messages[i - 1].role = "assistant"
            /\ messages[i - 1].content.py = "list"
            /\ \E d \in 1..dispatches : \E a \in OkCalls :
                /\ callLog[a].dispatch = d
                /\ i = 2 * d + 1
                /\ \E j \in 1..Len(messages[i - 1].content.items) :
                    LET block == messages[i - 1].content.items[j] IN
                    /\ block.type = "tool_use"
                    /\ block.id = messages[i].content.items[1].tool_use_id
                    /\ block.name = callLog[a].name
                    /\ block.input = callLog[a].input

C2_Witness ==
    /\ pc = "continue"
    /\ Len(messages) = 5
    /\ messages[4].content.items = <<U2, TextBlock("b"), U1>>
    /\ messages[5].content.items[1].tool_use_id = "t2"

\* Servers whose connection was opened: transport started and handshake done.
Connected == {connectLog[i].server : i \in {j \in 1..Len(connectLog) : connectLog[j].outcome = "connected"}}

Closed == {closeLog[i] : i \in 1..Len(closeLog)}

\* C3: when run_agent_from_json hands a result or a failure of run() to its
\* caller, close() has been called on every connection that was opened, once
\* each, and what is handed over is what run() returned or raised.
C3_CleanupOnEveryExit ==
    (delivered.kind # "none" /\ payload.has_key) =>
        /\ Closed = Connected
        /\ Len(closeLog) = Cardinality(Connected)
        /\ pending.kind # "none"
        /\ delivered = pending

\* A failed run (the completion API raised) with two connections, both closed.
C3_Witness ==
    /\ delivered.kind = "error"
    /\ delivered.type = "APIError"
    /\ Cardinality(Connected) = 2
    /\ Len(closeLog) = 2

\* The call_tool calls of dispatch number d, in the order they were made.
CallsOf(d) == SelectSeq(callLog, LAMBDA e : e.dispatch = d)

\* C4: the registered sessions are the servers that connected, in the order
\* the configuration declares them; each dispatch calls them in that order,
\* starting with the first; a call that returns ends the dispatch, and its
\* result is the one put in the conversation; when every registered session
\* has raised, the dispatch raises the not-found error naming the tool.
C4_RegistrationOrder ==
    /\ \A i, j \in 1..Len(mcp_sessions) : i < j => mcp_sessions[i] < mcp_sessions[j]
    /\ {mcp_sessions[i] : i \in 1..Len(mcp_sessions)} = Connected
    /\ \A d \in 1..dispatches :
        LET calls == CallsOf(d) IN
        /\ Len(calls) <= Len(mcp_sessions)
        /\ \A k \in 1..Len(calls) :
            /\ calls[k].server = mcp_sessions[k]
            /\ calls[k].name = calls[1].name
            /\ calls[k].ok => k = Len(calls)
        /\ (calls # <<>> /\ calls[Len(calls)].ok
            /\ SerializeResult(calls[Len(calls)].result).ok) =>
            /\ Len(messages) >= 2 * d + 1
            /\ messages[2 * d + 1].content.items[1].content
                 = SerializeResult(calls[Len(calls)].result).text
    /\ (pending.kind = "error" /\ pending.type = "ValueError") =>
        LET calls == CallsOf(dispatches) IN
        /\ Len(calls) = Len(mcp_sessions)
        /\ \A k \in 1..Len(calls) : ~calls[k].ok
        /\ calls # <<>>
        /\ pending.msg = "Tool '" \o calls[1].name
                         \o "' not found on any connected MCP server"
    /\ (pc \in {"cleanup", "end"} /\ dispatches > 0
        /\ \A k \in 1..Len(CallsOf(dispatches)) : ~CallsOf(dispatches)[k].ok
        /\ pending.kind # "none")
       => (pending.kind = "error" /\ pending.type = "ValueError")

\* Servers 1 and 2 both advertise "X"; a dispatch of "X" was refused by
\* server 1 and then answered by server 2.
C4_Witness ==
    /\ mcp_sessions = <<1, 2>>
    /\ Len(tools) = 3
    /\ tools[1].name = "X" /\ tools[3].name = "X"
    /\ Len(callLog) = 2
    /\ callLog[1] = [server |-> 1, name |-> "X", input |-> "q", ok |-> FALSE,
                     result |-> None, dispatch |-> 1]
    /\ callLog[2].server = 2 /\ callLog[2].ok /\ callLog[2].dispatch = 1

\* Dispatch number d is over and no session returned a result.
DispatchFailed(d) ==
    /\ Len(CallsOf(d)) = Len(mcp_sessions)
    /\ \A k \in 1..Len(CallsOf(d)) : ~CallsOf(d)[k].ok
    /\ (d = dispatches => pc # "call_tool")

ToolResultMessages == {i \in 1..Len(messages) : IsToolResultMessage(messages[i])}

\* C5: a dispatch in which no session returned a result ends the run with the
\* dispatch's error: nothing is appended to the conversation for that turn,
\* no completion-API call and no dispatch follows, the sessions are closed,
\* and the caller gets that error after the closes.
C5_FailedDispatchEndsRun ==
    \A d \in 1..dispatches :
        DispatchFailed(d) =>
            /\ d = dispatches
            /\ pending.kind = "error" /\ pending.type = "ValueError"
            /\ pc \in {"cleanup", "end"}
            /\ Len(messages) = 1 + 2 * (d - 1)
            /\ Cardinality(ToolResultMessages) = d - 1
            /\ Len(apiLog) = d
            /\ pc = "end" =>
                /\ delivered = pending
                /\ Closed = Connected
                /\ Len(closeLog) = Cardinality(Connected)

\* The second dispatch of a run failed on both sessions; the caller has the
\* error and both sessions were closed.
C5_Witness ==
    /\ pc = "end"
    /\ delivered.kind = "error" /\ delivered.type = "ValueError"
    /\ dispatches = 2
    /\ Len(callLog) = 3
    /\ Len(messages) = 3
    /\ closeLog = <<1, 2>>

\* The texts of the text blocks of a content list, joined in block order.
RECURSIVE TextOf(_)
TextOf(content) ==
    IF content = <<>> THEN ""
    ELSE LET n == Len(content) IN
         TextOf(SubSeq(content, 1, n - 1))
         \o (IF content[n].type = "text" THEN content[n].text ELSE "")

\* C6: with no tool provider configured, no completion-API call carries a
\* tools argument, no tool is dispatched and at most one completion-API call
\* is made; a run that ends after its conversation was built has made exactly
\* one, and a run that returns gives the text and the usage of that reply.
C6_NoProviders ==
    payload.mcp_servers = 0 =>
        /\ \A i \in 1..Len(apiLog) : ~apiLog[i].tools.given
        /\ dispatches = 0 /\ callLog = <<>>
        /\ Len(apiLog) <= 1
        /\ pc \in {"finish", "cleanup", "end"} /\ payload.has_key
           /\ ~(pending.kind = "error" /\ pending.type = "TypeError")
           => Len(apiLog) = 1
        /\ pending.kind = "result" =>
            /\ Len(apiLog) = 1
            /\ pending.value.response = TextOf(apiLog[1].reply.content)
            /\ pending.value.usage = apiLog[1].reply.usage

C6_Witness ==
    /\ payload.mcp_servers = 0
    /\ delivered.kind = "result"
    /\ delivered.value.response = "ba"
    /\ Len(apiLog) = 1
    /\ apiLog[1].tools = [given |-> FALSE]

\* C7: a reply whose stop reason is not tool-use is the last one of the run:
\* no completion-API call and no dispatch follows it, the run goes on to
\* build its result, and the text returned is the text of that reply's text
\* blocks, joined in block order.
C7_NonToolUseEndsLoop ==
    \A i \in 1..Len(apiLog) :
        LET r == apiLog[i].reply IN
        r.stop_reason \notin {"tool_use", "none"} =>
            /\ i = Len(apiLog)
            /\ dispatches = i - 1
            /\ \A k \in 1..Len(callLog) : callLog[k].dispatch < i
            /\ Len(messages) = apiLog[i].messages
            /\ pc \in {"finish", "cleanup", "end"}
            /\ pending.kind = IF pc = "finish" THEN "none" ELSE "result"
            /\ pending.kind = "result" =>
                /\ pending.value.response = TextOf(r.content)
                /\ pending.value.stop_reason = r.stop_reason

\* A first reply cut by max_tokens, with a tool catalog: one call, no
\* dispatch, the two texts in block order.
C7_Witness ==
    /\ pc = "end"
    /\ UseTools(tools)
    /\ Len(apiLog) = 1
    /\ apiLog[1].reply.stop_reason = "max_tokens"
    /\ apiLog[1].reply.content = <<TextBlock("b"), TextBlock("a")>>
    /\ delivered.kind = "result"
    /\ delivered.value.response = "ba"
    /\ dispatches = 0

\* Servers whose connection attempt failed, at launch or at the handshake.
FailedConnects == {connectLog[i].server : i \in {j \in 1..Len(connectLog) : connectLog[j].outcome # "connected"}}

\* Number of tools the successful listings returned.
RECURSIVE ListedCount(_)
ListedCount(log) ==
    IF log = <<>> THEN 0
    ELSE (IF Head(log).ok THEN Len(Advertised(Head(log).server)) ELSE 0)
         + ListedCount(Tail(log))

\* The run is over, or building its result, and never called the API.
EndedBeforeFirstCall ==
    /\ payload.has_key
    /\ pc \in {"finish", "cleanup", "end"}
    /\ apiLog = <<>>

\* C8: every configured server is attempted, in configuration order, whatever
\* happened to the ones before it; a server whose connection failed is not
\* registered, is never asked for its tools (so the catalog holds the tools of
\* registered servers only) and is never sent a call_tool; and a failed
\* connection does not end the run: a constructed run that ends without a
\* completion-API call ended while building the conversation.
C8_ConnectFailureNonFatal ==
    /\ \A i \in 1..Len(connectLog) : connectLog[i].server = i
    /\ (payload.has_key /\ pc \notin {"construct", "connect", "initialize"})
        => Len(connectLog) = payload.mcp_servers
    /\ \A p \in FailedConnects :
        /\ \A i \in 1..Len(mcp_sessions) : mcp_sessions[i] # p
        /\ \A i \in 1..Len(listLog) : listLog[i].server # p
        /\ \A i \in 1..Len(callLog) : callLog[i].server # p
    /\ Len(tools) = ListedCount(listLog)
    /\ \A i \in 1..Len(apiLog) :
        apiLog[i].tools = IF tools = <<>> THEN [given |-> FALSE]
                          ELSE [given |-> TRUE, value |-> tools]
    /\ EndedBeforeFirstCall => (pending.kind = "error" /\ pending.type = "TypeError")

\* The first server failed to launch, the second connected and listed its
\* tool; the API was called with that reduced catalog and the tool call went
\* to the second server.
C8_Witness ==
    /\ Len(connectLog) = 2
    /\ connectLog[1].outcome = "launch_failed"
    /\ connectLog[2].outcome = "connected"
    /\ Len(tools) = 1
    /\ Len(apiLog) = 2
    /\ apiLog[1].tools = [given |-> TRUE, value |-> tools]
    /\ Len(callLog) = 1 /\ callLog[1].server = 2

\* Servers whose list_tools call raised.
FailedListings == {listLog[i].server : i \in {j \in 1..Len(listLog) : ~listLog[j].ok}}

\* The catalog the successful listings add up to: listing order, then each
\* server's own order, a missing description as the empty string.
RECURSIVE CatalogOf(_)
CatalogOf(log) ==
    IF log = <<>> THEN <<>>
    ELSE LET n == Len(log)
             adv == Advertised(log[n].server)
         IN CatalogOf(SubSeq(log, 1, n - 1))
            \o (IF log[n].ok
                THEN [k \in 1..Len(adv) |->
                        [name |-> adv[k].name,
                         description |-> IF adv[k].description = None THEN ""
                                         ELSE adv[k].description.v,
                         input_schema |-> adv[k].inputSchema]]
                ELSE <<>>)

\* C9 as stated: a server whose listing failed is excluded like one that
\* failed to connect: the failure does not end the run, the server adds no
\* tools to the catalog, and no call_tool is ever sent to it.
C9_ListingFailureExcludes ==
    /\ tools = CatalogOf(listLog)
    /\ EndedBeforeFirstCall => (pending.kind = "error" /\ pending.type = "TypeError")
    /\ \A p \in FailedListings : \A i \in 1..Len(callLog) : callLog[i].server # p

\* C9 amended: a failed listing does not end the run and adds no tools to the
\* catalog, which stays the tools of the successful listings; but the server
\* stays registered: every dispatch still calls it when its turn comes in
\* registration order, and cleanup closes it.
C9_ListingFailureKeepsSession ==
    /\ tools = CatalogOf(listLog)
    /\ EndedBeforeFirstCall => (pending.kind = "error" /\ pending.type = "TypeError")
    /\ \A p \in FailedListings :
        /\ \E k \in 1..Len(mcp_sessions) : mcp_sessions[k] = p
        /\ \A d \in 1..dispatches : \A k \in 1..Len(mcp_sessions) :
            (mcp_sessions[k] = p /\ (d < dispatches \/ pc # "call_tool" \/ idx > k)
             /\ \A j \in 1..Len(CallsOf(d)) : j < k => ~CallsOf(d)[j].ok)
            => /\ Len(CallsOf(d)) >= k
               /\ CallsOf(d)[k].server = p
        /\ pc = "end" => p \in Closed

\* The listing of server 1 failed and that of server 2 succeeded; the tool
\* call went to server 1 first, which answered it; both were closed.
C9_Witness ==
    /\ Len(listLog) = 2
    /\ listLog[1] = [server |-> 1, ok |-> FALSE]
    /\ listLog[2] = [server |-> 2, ok |-> TRUE]
    /\ Len(tools) = 1
    /\ callLog # <<>> /\ callLog[1].server = 1 /\ callLog[1].ok
    /\ pc = "end"
    /\ closeLog = <<1, 2>>

\* C10 as stated: a context that json.dumps cannot encode does not make run()
\* fail: the run goes on with the bare task as its first message and calls
\* the completion API.
C10_ContextFailureTolerated ==
    (Truthy(payload.context) /\ ~JsonDumps(payload.context, TRUE).ok) =>
        /\ ~(pending.kind = "error" /\ pending.type = "TypeError")
        /\ (payload.has_key /\ pc \in {"cleanup", "end"}) => apiLog # <<>>
        /\ messages # <<>> => messages[1] = UserText(Task)

\* C11: without a key (none in the configuration, none in the environment)
\* the constructor raises before anything is attempted: no connection
\* attempt, no list_tools, no call_tool, no completion-API call and no close
\* ever happens, no session is registered, and the caller gets the
\* constructor's ValueError.
C11_MissingKeyFatal ==
    ~payload.has_key =>
        /\ connectLog = <<>> /\ listLog = <<>> /\ callLog = <<>>
        /\ apiLog = <<>> /\ closeLog = <<>>
        /\ mcp_sessions = <<>> /\ dispatches = 0 /\ messages = <<>>
        /\ pc \in {"construct", "end"}
        /\ pc = "end" =>
            /\ delivered.kind = "error" /\ delivered.type = "ValueError"
            /\ pending.kind = "none"

\* Two servers configured and no key: the run is over with the ValueError.
C11_Witness ==
    /\ ~payload.has_key
    /\ payload.mcp_servers = 2
    /\ pc = "end"
    /\ delivered.kind = "error" /\ delivered.type = "ValueError"

\* C12: a close() that raises does not stop cleanup and does not change the
\* outcome: close() is called on every registered session, in registration
\* order, whatever the closes before it did, and the caller gets what run()
\* returned or raised.
C12_CloseFailureContained ==
    /\ closeErrors <= Len(closeLog)
    /\ Len(closeLog) <= Len(mcp_sessions)
    /\ \A i \in 1..Len(closeLog) : closeLog[i] = mcp_sessions[i]
    /\ closeLog # <<>> => pc \in {"cleanup", "end"} /\ pending.kind # "none"
    /\ (pc = "cleanup" /\ pending.kind = "result") =>
            pending.value = RunResult(response)
    /\ (pc \in {"cleanup", "end"} /\ pending.kind = "error") =>
            pending.type \in {"TypeError", "APIError", "ValueError",
                              "RecursionError", "RuntimeError"}
    /\ (pc = "end" /\ payload.has_key) =>
        /\ closeLog = mcp_sessions
        /\ delivered = pending

\* Both closes raised; both were made, and the caller has the result of run().
C12_Witness ==
    /\ pc = "end"
    /\ closeLog = <<1, 2>>
    /\ closeErrors = 2
    /\ delivered.kind = "result"
    /\ delivered.value.response = "a"

\* The text expected in the tool_result block for each result a server gives.
ExpectedPayload(result) ==
    IF result = PyStr("y") THEN "y"
    ELSE IF result = PyDict("result", PyStr("y")) THEN "{\"result\": \"y\"}"
    ELSE IF result = PyObject("CallToolResult") THEN "<CallToolResult>"
    ELSE IF result = PyCycle THEN "[[...]]"
    ELSE "?"

\* C13 as stated: a call_tool that returned is always followed by the
\* tool_result message and the next completion-API call, whatever the result
\* is: a text result is the payload as it is, a mapping is its JSON text, and
\* a result json cannot encode is its str(); the only failure that can follow
\* is that of the completion-API call itself.
C13_SerializationNeverFails ==
    \A a \in OkCalls :
        LET d == callLog[a].dispatch IN
        /\ pc # "call_tool" \/ d < dispatches
        /\ Len(messages) >= 2 * d + 1
        /\ IsToolResultMessage(messages[2 * d + 1])
        /\ messages[2 * d + 1].content.items[1].content
              = ExpectedPayload(callLog[a].result)
        /\ (d = dispatches /\ pc = "continue") => Len(apiLog) = d
        /\ (d < dispatches \/ pc # "continue") =>
            /\ Len(apiLog) >= d + 1
            /\ apiLog[d + 1].messages = 2 * d + 1
        /\ (d = dispatches /\ pending.kind = "error") =>
            /\ pending.type = "APIError"
            /\ apiLog[d + 1].reply = NoResponse

\* C14 as stated: the assistant message holding the invocation is appended
\* before the dispatch: while call_tool calls are being made for a turn the
\* last message of the conversation is the assistant message with the whole
\* content of the reply, and it is still there when the dispatch has failed.
C14_AssistantBeforeDispatch ==
    /\ pc = "call_tool" =>
        /\ Len(messages) = 2 * dispatches
        /\ messages[Len(messages)] =
              [role |-> "assistant", content |-> PyList(response.content)]
    /\ \A d \in 1..dispatches :
        DispatchFailed(d) =>
            /\ Len(messages) = 2 * d
            /\ messages[2 * d].role = "assistant"

\* The content holds no tool_use block.
NoToolUseIn(content) == \A j \in 1..Len(content) : content[j].type # "tool_use"

\* C15: a reply to a call made with tools whose stop reason is tool_use and
\* whose content holds no tool_use block ends the loop without a failure: it
\* is the last completion-API call, no dispatch is made for it, no message is
\* appended after it, and the run returns the text of its text blocks with
\* tool_use as the stop reason.
C15_ToolUseWithoutBlock ==
    \A i \in 1..Len(apiLog) :
        LET r == apiLog[i].reply IN
        (r.stop_reason = "tool_use" /\ apiLog[i].tools.given /\ NoToolUseIn(r.content)) =>
            /\ i = Len(apiLog)
            /\ dispatches = i - 1
            /\ \A k \in 1..Len(callLog) : callLog[k].dispatch < i
            /\ Len(messages) = apiLog[i].messages
            /\ pc \in {"finish", "cleanup", "end"}
            /\ pending.kind = IF pc = "finish" THEN "none" ELSE "result"
            /\ pending.kind = "result" =>
                /\ pending.value.response = TextOf(r.content)
                /\ pending.value.stop_reason = "tool_use"
                /\ pending.value.usage = r.usage

\* After one tool turn the API answered tool_use with a text block only: the
\* run returned that text, with two API calls and one dispatch.
C15_Witness ==
    /\ pc = "end"
    /\ delivered.kind = "result"
    /\ delivered.value.stop_reason = "tool_use"
    /\ delivered.value.response = "a"
    /\ Len(apiLog) = 2
    /\ apiLog[2].reply.content = <<TextBlock("a")>>
    /\ dispatches = 1
    /\ Len(messages) = 3

\* C16: one tool call per reply: every call_tool of a dispatch carries the
\* name and the input of the first tool_use block of the reply, in content
\* order; at most one of them returns; the turn appended holds the whole
\* content of the reply, every block of it, as the assistant message, and one
\* user message of a single tool_result block with that first block's id.
C16_FirstToolUseOnly ==
    \A d \in 1..dispatches :
        LET content == apiLog[d].reply.content
            calls == CallsOf(d)
        IN
        \E j \in 1..Len(content) :
            /\ content[j].type = "tool_use"
            /\ \A k \in 1..(j - 1) : content[k].type # "tool_use"
            /\ \A k \in 1..Len(calls) :
                /\ calls[k].name = content[j].name
                /\ calls[k].input = content[j].input
            /\ Cardinality({k \in 1..Len(calls) : calls[k].ok}) <= 1
            /\ (d < dispatches \/ pc = "continue") =>
                /\ Cardinality({k \in 1..Len(calls) : calls[k].ok}) = 1
                /\ Len(messages) >= 2 * d + 1
                /\ messages[2 * d] =
                      [role |-> "assistant", content |-> PyList(content)]
                /\ messages[2 * d + 1].role = "user"
                /\ Len(messages[2 * d + 1].content.items) = 1
                /\ messages[2 * d + 1].content.items[1].type = "tool_result"
                /\ messages[2 * d + 1].content.items[1].tool_use_id = content[j].id
            /\ Len(messages) <= 2 * dispatches + 1

\* The reply held two tool_use blocks, "Y" before "X": only "Y" was called,
\* once, the assistant message holds the three blocks and the one
\* tool_result names "t2"; the next reply ended the run.
C16_Witness ==
    /\ pc = "end"
    /\ delivered.kind = "result"
    /\ dispatches = 1
    /\ Len(callLog) = 1 /\ callLog[1].name = "Y" /\ callLog[1].ok
    /\ Len(messages) = 3
    /\ messages[2].content.items = <<U2, TextBlock("b"), U1>>
    /\ messages[3].content.items[1].tool_use_id = "t2"

\* The loop is over: run() is building its result (DONE), has returned it,
\* or has raised (FAILED).
Terminal == pc \in {"finish", "cleanup", "end"}

\* C17: once the loop is over it stays over: no completion-API call, no
\* call_tool, no dispatch, no connection attempt and no listing is made any
\* more, the conversation, the catalog and the last reply stay as they are,
\* and an outcome once set is not replaced; what follows is the result being
\* built, the closes, and the outcome reaching the caller.
C17_TerminalStaysTerminal ==
    [][Terminal =>
        /\ Terminal'
        /\ apiLog' = apiLog
        /\ callLog' = callLog
        /\ dispatches' = dispatches
        /\ messages' = messages
        /\ response' = response
        /\ tools' = tools
        /\ connectLog' = connectLog
        /\ listLog' = listLog
        /\ mcp_sessions' = mcp_sessions
        /\ (pending.kind # "none" => pending' = pending)
        /\ (closeLog' # closeLog => pending.kind # "none")]_vars

\* The API raised on the call after the first tool turn; both sessions were
\* closed after that and the caller has the error.
C17_Witness ==
    /\ pc = "end"
    /\ delivered.kind = "error" /\ delivered.type = "APIError"
    /\ Len(apiLog) = 2
    /\ Len(messages) = 3
    /\ closeLog = <<1, 2>>

\* C18: list_tools is called once on each registered session, in
\* registration order, after the last connection attempt and before the
\* first completion-API call; the catalog is the tools of the successful
\* listings, in listing order and then in each server's own order, equal
\* names kept; from the first completion-API call on it does not change, and
\* every call of a run with a non-empty catalog carries it.
C18_CatalogListedOnce ==
    /\ Len(listLog) <= Len(mcp_sessions)
    /\ \A i \in 1..Len(listLog) : listLog[i].server = mcp_sessions[i]
    /\ listLog # <<>> =>
        /\ pc \notin {"construct", "connect", "initialize"}
        /\ Len(connectLog) = payload.mcp_servers
    /\ (payload.has_key /\ pc \notin {"construct", "connect", "initialize", "list"}) =>
            Len(listLog) = Len(mcp_sessions)
    /\ tools = CatalogOf(listLog)
    /\ apiLog # <<>> =>
        /\ pc \notin {"construct", "connect", "initialize", "list", "build"}
        /\ \A i \in 1..Len(apiLog) :
            tools # <<>> => apiLog[i].tools = [given |-> TRUE, value |-> tools]

\* Both servers listed "X": the catalog holds it twice, around "Y", and the
\* two completion-API calls of the run carried that catalog.
C18_Witness ==
    /\ Len(listLog) = 2 /\ listLog[1].ok /\ listLog[2].ok
    /\ Len(tools) = 3
    /\ tools[1] = [name |-> "X", description |-> "p1", input_schema |-> "schema"]
    /\ tools[2] = [name |-> "Y", description |-> "", input_schema |-> "schema"]
    /\ tools[3] = [name |-> "X", description |-> "p2", input_schema |-> "schema"]
    /\ Len(apiLog) = 2
    /\ apiLog[1].tools.value = tools /\ apiLog[2].tools.value = tools

\* C19: with an empty catalog (no server configured, no connection made, no
\* listing that succeeded) the tool loop is not entered: one completion-API
\* call is made, without a tools argument, and whatever it answers, a
\* tool_use reply holding a tool_use block included, no dispatch is made and
\* the run returns the text of that reply.
C19_EmptyCatalogNoLoop ==
    (tools = <<>> /\ apiLog # <<>>) =>
        /\ Len(apiLog) = 1
        /\ apiLog[1].tools = [given |-> FALSE]
        /\ apiLog[1].messages = 1
        /\ dispatches = 0 /\ callLog = <<>>
        /\ Len(messages) = 1
        /\ pc \in {"finish", "cleanup", "end"}
        /\ apiLog[1].reply # NoResponse =>
            /\ pending.kind = IF pc = "finish" THEN "none" ELSE "result"
            /\ pending.kind = "result" =>
                /\ pending.value.response = TextOf(apiLog[1].reply.content)
                /\ pending.value.stop_reason = apiLog[1].reply.stop_reason

\* A session is registered but its listing failed: the one call, made without
\* tools, was answered tool_use with a tool_use block, and the run returned.
C19_Witness ==
    /\ mcp_sessions # <<>>
    /\ tools = <<>>
    /\ pc = "end"
    /\ Len(apiLog) = 1
    /\ apiLog[1].reply.stop_reason = "tool_use"
    /\ apiLog[1].reply.content = <<TextBlock("a"), U1>>
    /\ delivered.kind = "result"
    /\ delivered.value.stop_reason = "tool_use"
    /\ delivered.value.response = "a"
    /\ dispatches = 0

\* Servers whose transport started and whose initialize() raised.
HandshakeFailed == {connectLog[i].server : i \in {j \in 1..Len(connectLog) : connectLog[j].outcome = "handshake_failed"}}

\* C20: the registered sessions are exactly the servers whose launch and
\* handshake both succeeded, and the closes of cleanup are exactly the
\* registered sessions; so a server whose handshake failed is not
\* registered, is never listed, never sent a call_tool and never closed.
C20_HandshakeFailureNotRegistered ==
    /\ {mcp_sessions[i] : i \in 1..Len(mcp_sessions)} = Connected
    /\ Len(mcp_sessions) = Cardinality(Connected)
    /\ Closed \subseteq Connected
    /\ (pc = "end" /\ payload.has_key) => closeLog = mcp_sessions
    /\ \A p \in HandshakeFailed :
        /\ \A i \in 1..Len(mcp_sessions) : mcp_sessions[i] # p
        /\ \A i \in 1..Len(listLog) : listLog[i].server # p
        /\ \A i \in 1..Len(callLog) : callLog[i].server # p
        /\ \A i \in 1..Len(closeLog) : closeLog[i] # p

\* The handshake of server 1 failed and server 2 connected: the tool call
\* went to server 2 and server 2 alone was closed.
C20_Witness ==
    /\ Len(connectLog) = 2
    /\ connectLog[1].outcome = "handshake_failed"
    /\ connectLog[2].outcome = "connected"
    /\ pc = "end"
    /\ callLog # <<>> /\ callLog[1].server = 2
    /\ closeLog = <<2>>

\* C22: the result of run() is built from the last reply alone: its text is
\* the text of the last reply's text blocks, its stop reason and its two
\* usage counters are the last reply's; in a run with tool turns the counters
\* of the earlier replies are not added in (the result reports less than the
\* run used) and the text blocks of the earlier replies are not in the text.
C22_ResultFromLastReply ==
    pending.kind = "result" =>
        LET n == Len(apiLog)
            last == apiLog[n].reply
        IN
        /\ n = dispatches + 1
        /\ last = response
        /\ pending.value.response = TextOf(last.content)
        /\ pending.value.stop_reason = last.stop_reason
        /\ pending.value.usage = last.usage
        /\ pending.value.model = Model
        /\ n > 1 =>
            /\ pending.value.usage.input_tokens < TotalUsage(apiLog).input_tokens
            /\ pending.value.usage.output_tokens < TotalUsage(apiLog).output_tokens

\* Two tool turns, each on a reply holding the text "b", then a final reply
\* "a": the result is "a" with the counters of the third call only.
C22_Witness ==
    /\ pc = "end"
    /\ delivered.kind = "result"
    /\ Len(apiLog) = 3
    /\ apiLog[1].reply.content = <<U2, TextBlock("b"), U1>>
    /\ apiLog[2].reply.content = <<U2, TextBlock("b"), U1>>
    /\ apiLog[3].reply.content = <<TextBlock("a")>>
    /\ delivered.value.response = "a"
    /\ delivered.value.usage = [input_tokens |-> 5, output_tokens |-> 1]

\* The run made its first completion-API call with a catalog: it entered the
\* part of run() that holds the tool loop.
LoopEntered == UseTools(tools) /\ apiLog # <<>>

\* What ends the loop: the last reply is not tool_use or holds no tool_use
\* block, or a completion-API call or a dispatch has failed.
ExitEvent ==
    \/ /\ response # NoResponse
       /\ (response.stop_reason # "tool_use" \/ NoToolUseIn(response.content))
    \/ /\ pending.kind = "error"
       /\ pending.type \in {"APIError", "ValueError"}

\* C21 as stated, its "only if": a run that entered the tool loop is over
\* (DONE or FAILED) only if the completion API gave a reply that is not
\* tool_use or holds no tool_use block, or a completion-API call or a dispatch
\* failed.
C21_LoopEndsOnlyByExit ==
    (LoopEntered /\ Terminal) => ExitEvent

\* The workflow the agent should be running: the name of the latest
\* set_workflow call, or else the configured value, or else "default".
CurrentWorkflow ==
    IF set_log # <<>> THEN PyStr(set_log[Len(set_log)])
    ELSE IF generic_agent.config.workflow # Absent THEN generic_agent.config.workflow
    ELSE PyStr("default")

\* Some configured server entry is not a mapping.
BadServerEntry ==
    \E i \in 1..Len(generic_agent.mcp_servers.items) :
        generic_agent.mcp_servers.items[i].py # "dict"

\* C23: run() of the packaged agent always returns: a result of status
\* "failed" with the error text when something raised (here a server entry
\* without get), one of status "success" otherwise; in both the workflow
\* field is the agent's workflow, the name of the latest set_workflow call
\* or, without one, the configured value or "default".
C23_RunAlwaysReturns ==
    /\ run_returned.kind \in {"none", "result"}
    /\ run_at = "returned" =>
        /\ run_returned.kind = "result"
        /\ run_returned.value.status = IF BadServerEntry THEN "failed" ELSE "success"
        /\ run_returned.value.status = "failed" =>
            /\ DOMAIN run_returned.value = {"status", "error", "workflow"}
            /\ run_returned.value.error = "'str' object has no attribute 'get'"
        /\ run_returned.value.status = "success" =>
            /\ DOMAIN run_returned.value = {"status", "data", "workflow"}
            /\ run_returned.value.data.workflow = CurrentWorkflow
        /\ run_returned.value.workflow = generic_agent.workflow
        /\ run_returned.value.workflow = CurrentWorkflow

\* The configuration names the workflow "research" and holds a server entry
\* that is a string; set_workflow was called with "w1", then "w2": run()
\* returned a failed result for the workflow "w2".
C23_Witness ==
    /\ run_at = "returned"
    /\ generic_agent.config.workflow = PyStr("research")
    /\ set_log = <<"w1", "w2">>
    /\ run_returned.kind = "result"
    /\ run_returned.value.status = "failed"
    /\ run_returned.value.workflow = PyStr("w2")
====
